---- MODULE Spec2Model ----
(***************************************************************************)
(* Model of the PDS ASCII label / table reader of amdapy (src/pds.py,      *)
(* src/str_utils.py).                                                      *)
(*                                                                         *)
(* A Python str is a sequence of one-character strings.  Positions are     *)
(* Python's: 0-based, so in_str[i] is s[i+1] here, and find() gives -1     *)
(* when there is no occurrence.  Python's None is the value None below, a  *)
(* sequence that is no text (its one element is not a character), so that  *)
(* it can be compared with any text.                                       *)
(***************************************************************************)
EXTENDS Integers, Sequences, FiniteSets, TLC

None == <<"<None>">>

----------------------------------------------------------------------------
(* Module constants of src/pds.py *)
PDS_END_TAG == <<"E","N","D">>
NEWLINE == "\n"
ASSIGNMENT == "="
STRBEG == "\""
kwOBJECT == <<"O","B","J","E","C","T">>
kwEND_OBJECT == <<"E","N","D","_","O","B","J","E","C","T">>
kwCOLUMN == <<"C","O","L","U","M","N">>
kwITEMS == <<"I","T","E","M","S">>
PDS_FIELD_COLNUM == <<"C","O","L","U","M","N","_","N","U","M","B","E","R">>
kwNAN == <<"n","a","n">>
PDS_DATETIME == <<"T","I","M","E">>
PDS_FLOAT == <<"A","S","C","I","I","_","R","E","A","L">>
PDS_INT == <<"A","S","C","I","I","_","I","N","T","E","G","E","R">>
PDS_FIELD_NAME == <<"N","A","M","E">>
PDS_FIELD_DATATYPE == <<"D","A","T","A","_","T","Y","P","E">>
PDS_FIELD_FILLVAL == <<"M","I","S","S","I","N","G","_","C","O","N","S","T","A","N","T">>

----------------------------------------------------------------------------
(* Python str primitives *)

\* in_str[a:b] for 0 <= a, 0 <= b (b is clamped to the length)
Slice(s, a, b) ==
  LET e == IF b > Len(s) THEN Len(s) ELSE b
  IN  IF a >= e THEN <<>> ELSE SubSeq(s, a + 1, e)

\* in_str[a:]
SliceFrom(s, a) == Slice(s, a, Len(s))

\* in_str.find(c, start) for a one-character c
RECURSIVE Find(_, _, _)
Find(s, c, start) ==
  IF start >= Len(s) THEN -1
  ELSE IF s[start + 1] = c THEN start
  ELSE Find(s, c, start + 1)

\* c in in_str
Contains(s, c) == Find(s, c, 0) >= 0

\* in_str.split(c) for a one-character c: the list of the texts between
\* the occurrences of c, empty ones included
RECURSIVE Split(_, _)
Split(s, c) ==
  LET p == Find(s, c, 0)
  IN  IF p < 0 THEN <<s>>
      ELSE <<Slice(s, 0, p)>> \o Split(SliceFrom(s, p + 1), c)

\* list(filter(None, lst)): drops the empty texts
KeepEmpty(lst) == lst
RECURSIVE FilterNonEmpty(_)
FilterNonEmpty(lst) ==
  IF lst = <<>> THEN <<>>
  ELSE IF Head(lst) = <<>> THEN FilterNonEmpty(Tail(lst))
  ELSE <<Head(lst)>> \o FilterNonEmpty(Tail(lst))

----------------------------------------------------------------------------
(* src/str_utils.py *)

RECURSIVE str_join_list(_, _)
str_join_list(lst, c) ==
  IF lst = <<>> THEN <<>>
  ELSE str_join_list(SubSeq(lst, 1, Len(lst) - 1), c) \o <<c>> \o lst[Len(lst)]

RECURSIVE str_rem_preceding(_, _)
str_rem_preceding(in_str, c) ==
  IF Len(in_str) > 0 /\ in_str[1] = c
  THEN str_rem_preceding(Tail(in_str), c)
  ELSE in_str

RECURSIVE str_rem_trailing(_, _)
str_rem_trailing(in_str, c) ==
  IF Len(in_str) > 0 /\ in_str[Len(in_str)] = c
  THEN str_rem_trailing(SubSeq(in_str, 1, Len(in_str) - 1), c)
  ELSE in_str

str_rem_ends(in_str, c) == str_rem_trailing(str_rem_preceding(in_str, c), c)

str_rem_successive(in_str, c) ==
  str_join_list(FilterNonEmpty(Split(in_str, c)), " ")

str_is_integer(in_str) ==
  \A k \in 1..Len(in_str) :
     in_str[k] \in {"0","1","2","3","4","5","6","7","8","9"}

----------------------------------------------------------------------------
(* PDSObject / PDSAttribute nodes.  kind is the Python class of the node  *)
(* ("att" for PDSAttribute, "obj" for PDSObject); an attribute's value is  *)
(* a text or None, an object's value is the list of its children.          *)

AttWithoutQuotes(name, value) ==
  [kind |-> "att", name |-> name,
   value |-> SelectSeq(value, LAMBDA ch : ch # "\"")]
Att(name, value) == [kind |-> "att", name |-> name, value |-> value]
Obj(name, value) == [kind |-> "obj", name |-> name, value |-> value]

\* Python's None where a node is expected
NoNode == [kind |-> "none", name |-> None, value |-> None]

is_attribute(n) == n.kind = "att" /\ n.name # None /\ n.value # None
is_object(n) == n.kind = "obj" /\ n.name # None
is_object_t(n, t) == is_object(n) /\ n.name = t
is_type(n, t) == n.name = t

has_end(n) ==
  IF is_attribute(n) THEN TRUE
  ELSE n.kind = "obj" /\
       \E i \in 1..Len(n.value) :
          /\ n.value[i].name = kwEND_OBJECT
          /\ n.value[i].kind = "att"
          /\ n.value[i].value = n.name

RECURSIVE valid(_)
valid(n) ==
  IF n.kind = "att"
  THEN \* PDSAttribute.valid
       IF n.name = PDS_END_TAG THEN TRUE
       ELSE n.name # None /\ n.value # None
  ELSE \* PDSObject.valid
       /\ \A i \in 1..Len(n.value) : valid(n.value[i])
       /\ has_end(n)

\* PDSObject.get
RECURSIVE GetFrom(_, _, _)
GetFrom(children, name, i) ==
  IF i > Len(children) THEN None
  ELSE IF is_attribute(children[i]) /\ children[i].name = name
       THEN children[i].value
       ELSE GetFrom(children, name, i + 1)
get(n, name) == IF is_object(n) THEN GetFrom(n.value, name, 1) ELSE None

----------------------------------------------------------------------------
(* PDSAttribute.fromstring / PDSAttribute.next *)

fromstring(in_str) ==
  IF Contains(in_str, ASSIGNMENT)
  THEN LET as_pos == Find(in_str, ASSIGNMENT, 0)
           name == str_rem_ends(Slice(in_str, 0, as_pos), " ")
           val0 == str_rem_ends(SliceFrom(in_str, as_pos + 1), " ")
           val == IF Contains(val0, "\"")
                  THEN str_rem_ends(str_rem_successive(val0, " "), " ")
                  ELSE val0
       IN  Att(name, val)
  ELSE Att(None, None)

\* The result of a call: the parsed node, the remaining text, and exc, the
\* exception the call raised ("" when it returned); hang says that the call
\* never returns.
Ret(obj, rest) == [obj |-> obj, rest |-> rest, exc |-> "", hang |-> FALSE]
Raise(e, rest) == [obj |-> Att(None, None), rest |-> rest, exc |-> e, hang |-> FALSE]
Hang(rest) == [obj |-> Att(None, None), rest |-> rest, exc |-> "", hang |-> TRUE]

AttrNext(in_str) ==
  LET nl_pos == Find(in_str, NEWLINE, 0)
      as_pos == Find(in_str, ASSIGNMENT, 0)
      line == Slice(in_str, 0, nl_pos)
  IN  IF nl_pos < 0 THEN Ret(fromstring(in_str), <<>>)
      ELSE IF as_pos < 0 THEN Ret(fromstring(line), SliceFrom(in_str, nl_pos + 1))
      ELSE IF as_pos < nl_pos
      THEN IF as_pos + 2 >= Len(in_str)
           THEN Raise("IndexError", in_str)      \* in_str[as_pos+2]
           ELSE IF in_str[as_pos + 3] = "\""
           THEN LET val_beg == Find(in_str, "\"", 0)
                    line_end == Find(in_str, "\"", val_beg + 1) + 1
                IN  Ret(fromstring(Slice(in_str, 0, line_end)),
                        SliceFrom(in_str, line_end))
           ELSE IF in_str[as_pos + 3] = "("
           THEN LET line_end == Find(in_str, ")", 0) + 1
                IN  Ret(fromstring(Slice(in_str, 0, line_end)),
                        SliceFrom(in_str, line_end))
           ELSE Ret(fromstring(line), SliceFrom(in_str, nl_pos + 1))
      ELSE Ret(fromstring(line), SliceFrom(in_str, nl_pos + 1))

----------------------------------------------------------------------------
(* PDSLabel.next: the next node of the label.  An OBJECT attribute opens   *)
(* an object whose children are parsed until the object is valid or the    *)
(* text is exhausted.  ObjLoop is the while loop of PDSLabel.next: an      *)
(* iteration that leaves the text and the validity of the object as they   *)
(* were repeats forever.                                                   *)

add_attribute_front(no, attribute) == Obj(no.name, <<attribute>> \o no.value)
add_attribute(no, attribute) == Obj(no.name, Append(no.value, attribute))

RECURSIVE LabelNext(_), ObjLoop(_, _)
ObjLoop(no, s) ==
  IF valid(no) \/ Len(s) = 0 THEN Ret(no, s)
  ELSE LET r == LabelNext(s)
           no2 == IF valid(r.obj) THEN add_attribute(no, r.obj) ELSE no
       IN  IF r.exc # "" \/ r.hang THEN r
           ELSE IF r.rest = s /\ ~valid(no2) THEN Hang(s)
           ELSE ObjLoop(no2, r.rest)

LabelNext(in_str) ==
  LET a == AttrNext(in_str)
  IN  IF a.exc # "" THEN a
      ELSE IF a.obj.name = kwOBJECT
           THEN ObjLoop(Obj(a.obj.value, <<>>), a.rest)
           ELSE a

\* PDSLabel.parse run to its end on a text it neither raises nor hangs on:
\* the list of the valid top-level nodes
RECURSIVE ParseText(_)
ParseText(txt) ==
  IF Len(txt) = 0 THEN <<>>
  ELSE LET r == LabelNext(txt)
       IN  IF r.exc # "" \/ r.hang \/ r.rest = txt THEN <<>>
           ELSE (IF valid(r.obj) THEN <<r.obj>> ELSE <<>>) \o ParseText(r.rest)

----------------------------------------------------------------------------
(* PDSObject.iter_object / PDSLabel.iter_object / PDSLabel.iter_column.   *)
(* t = None is the call without a type.  The generators are modelled by    *)
(* the list of the nodes they yield, in the order they yield them.         *)

RECURSIVE ObjIterObject(_, _), ObjIterFrom(_, _, _)
ObjIterFrom(children, t, i) ==
  IF i > Len(children) THEN <<>>
  ELSE LET o == children[i]
           here == IF (IF t = None THEN is_object(o) ELSE is_object_t(o, t))
                   THEN (IF t = None THEN <<o>>
                         ELSE IF is_type(o, t) THEN <<o>> ELSE <<>>)
                        \o ObjIterObject(o, t)
                   ELSE <<>>
       IN  here \o ObjIterFrom(children, t, i + 1)
ObjIterObject(n, t) ==
  IF is_object(n) THEN ObjIterFrom(n.value, t, 1) ELSE <<>>

RECURSIVE LabelIterObject(_, _, _)
LabelIterObject(nodes, t, i) ==
  IF i > Len(nodes) THEN <<>>
  ELSE LET o == nodes[i]
           here == IF is_object(o)
                   THEN (IF t = None THEN <<o>>
                         ELSE IF is_type(o, t) THEN <<o>> ELSE <<>>)
                        \o ObjIterObject(o, t)
                   ELSE <<>>
       IN  here \o LabelIterObject(nodes, t, i + 1)

iter_column_by_number(nodes) ==
  SelectSeq(LabelIterObject(nodes, kwCOLUMN, 1),
            LAMBDA o : get(o, PDS_FIELD_COLNUM) = <<"1">>)
  \o SelectSeq(LabelIterObject(nodes, kwCOLUMN, 1),
               LAMBDA o : get(o, PDS_FIELD_COLNUM) # <<"1">>)
iter_column(nodes) == LabelIterObject(nodes, kwCOLUMN, 1)
column_count(nodes) == Len(LabelIterObject(nodes, kwCOLUMN, 1))

\* PDSLabel.find_column_by_name: the first column with that NAME, or None
RECURSIVE FindColumnFrom(_, _, _)
FindColumnFrom(cols, col_name, i) ==
  IF i > Len(cols) THEN NoNode
  ELSE IF get(cols[i], PDS_FIELD_NAME) = col_name THEN cols[i]
  ELSE FindColumnFrom(cols, col_name, i + 1)
find_column_by_name(nodes, col_name) ==
  FindColumnFrom(iter_column(nodes), col_name, 1)

----------------------------------------------------------------------------
(* Python int(text): an optional sign and one or more decimal digits.      *)
Digits == <<"0","1","2","3","4","5","6","7","8","9">>
DigitVal(c) == (CHOOSE d \in 1..10 : Digits[d] = c) - 1
IsDigit(c) == \E d \in 1..10 : Digits[d] = c

RECURSIVE NatVal(_)
NatVal(ds) ==
  IF ds = <<>> THEN 0
  ELSE 10 * NatVal(SubSeq(ds, 1, Len(ds) - 1)) + DigitVal(ds[Len(ds)])

IntParse(txt) ==
  LET signed == Len(txt) > 0 /\ txt[1] \in {"+", "-"}
      ds == IF signed THEN Tail(txt) ELSE txt
      ok == txt # None /\ Len(ds) > 0 /\ \A i \in 1..Len(ds) : IsDigit(ds[i])
  IN  [ok |-> ok,
       val |-> IF ~ok THEN 0
               ELSE IF signed /\ txt[1] = "-" THEN 0 - NatVal(ds) ELSE NatVal(ds)]

\* [first + i for i in range(k)]
RangeFrom(first, k) == [i \in 1..(IF k > 0 THEN k ELSE 0) |-> first + i - 1]

\* 1 + self.column_index_map[temp_name][-1]
NextFreeFromFirst(lst) == 1 + lst[1]
NextFree(lst) == 1 + lst[Len(lst)]

\* An entry of column_index_map: an int, or a list of ints
IdxInt(n) == [list |-> FALSE, v |-> n]
IdxList(l) == [list |-> TRUE, v |-> l]

\* dict assignment m[k] = v
DictSet(m, k, v) == [x \in (DOMAIN m) \cup {k} |-> IF x = k THEN v ELSE m[x]]

----------------------------------------------------------------------------
(* Numbers.  A float64 or int32 value is the decimal m / 10^e, kept        *)
(* normalised (no trailing zero in the fraction), or NaN.  float(text) and *)
(* int(text) are modelled for the texts [sign] digits [. digits] and nan;  *)
(* exponents, inf and underscores do not occur in the tables of the model. *)

NaN == [nan |-> TRUE, m |-> 0, e |-> 0]
RECURSIVE Num(_, _)
Num(m, e) ==
  IF e > 0 /\ m % 10 = 0 THEN Num(m \div 10, e - 1)
  ELSE [nan |-> FALSE, m |-> m, e |-> e]

AllDigits(txt) == \A i \in 1..Len(txt) : IsDigit(txt[i])

FloatParse(txt) ==
  LET signed == Len(txt) > 0 /\ txt[1] \in {"+", "-"}
      body == IF signed THEN Tail(txt) ELSE txt
      dot == Find(body, ".", 0)
      ip == IF dot < 0 THEN body ELSE Slice(body, 0, dot)
      fp == IF dot < 0 THEN <<>> ELSE SliceFrom(body, dot + 1)
      isnan == body = kwNAN
      ok == \/ isnan
            \/ /\ txt # None
               /\ AllDigits(ip) /\ AllDigits(fp)
               /\ Len(ip) + Len(fp) > 0
      mag == NatVal(ip \o fp)
  IN  [ok |-> ok,
       val |-> IF ~ok \/ isnan THEN NaN
               ELSE Num(IF signed /\ txt[1] = "-" THEN 0 - mag ELSE mag, Len(fp))]

\* np.array(text, dtype=dt) for dt in {"float64", "intc"}
Coerce(txt, dt) ==
  IF dt = "float64" THEN FloatParse(txt)
  ELSE LET r == IntParse(txt)
       IN  [ok |-> r.ok, val |-> IF r.ok THEN Num(r.val, 0) ELSE NaN]

----------------------------------------------------------------------------
(* PDSDataset.datetime_str_to_float: strptime with                        *)
(* PDS_DATETIME_FORMAT = %Y-%m-%dT%H:%M:%S.%fZ, then the seconds since    *)
(* the epoch; None (none = TRUE) when strptime or the datetime             *)
(* constructor raises.                                                     *)

RECURSIVE DigitRun(_, _)
DigitRun(txt, pos) ==
  IF pos < Len(txt) /\ IsDigit(txt[pos + 1]) THEN 1 + DigitRun(txt, pos + 1) ELSE 0

IsLeap(y) == (y % 4 = 0 /\ y % 100 # 0) \/ y % 400 = 0
DaysInMonth(y, mo) ==
  IF mo = 2 THEN (IF IsLeap(y) THEN 29 ELSE 28)
  ELSE IF mo \in {4, 6, 9, 11} THEN 30 ELSE 31

\* days from 1970-01-01 to y-mo-d (proleptic Gregorian calendar)
DaysOfThirtyDayMonths(y, mo, d) == (y - 1970) * 360 + (mo - 1) * 30 + d - 1
DaysFromCivil(y, mo, d) ==
  LET yy == IF mo <= 2 THEN y - 1 ELSE y
      era == yy \div 400
      yoe == yy - era * 400
      mp == (mo + 9) % 12
      doy == (153 * mp + 2) \div 5 + d - 1
      doe == yoe * 365 + yoe \div 4 - yoe \div 100 + doy
  IN  era * 146097 + doe - 719468

\* one numeric field of the format: a run of lo..hi digits starting at pos,
\* followed by the literal lit (T and Z match in either case)
TimeField(txt, pos, lo, hi, lit) ==
  LET n == DigitRun(txt, pos)
      after == pos + n
      litok == /\ after < Len(txt)
               /\ \/ txt[after + 1] = lit
                  \/ lit = "T" /\ txt[after + 1] = "t"
                  \/ lit = "Z" /\ txt[after + 1] = "z"
  IN  [ok |-> n >= lo /\ n <= hi /\ litok,
       val |-> NatVal(Slice(txt, pos, after)),
       len |-> n,
       next |-> after + 1]

\* PDS_DATETIME_FORMAT field by field: the least and greatest number of
\* digits strptime takes for the directive, and the literal after it
PDS_DATETIME_FORMAT ==
  << [lo |-> 4, hi |-> 4, lit |-> "-"], [lo |-> 1, hi |-> 2, lit |-> "-"],
     [lo |-> 1, hi |-> 2, lit |-> "T"], [lo |-> 1, hi |-> 2, lit |-> ":"],
     [lo |-> 1, hi |-> 2, lit |-> ":"], [lo |-> 1, hi |-> 2, lit |-> "."],
     [lo |-> 1, hi |-> 6, lit |-> "Z"] >>

\* the fields of scheme from the k-th on, read from position pos
RECURSIVE TimeFields(_, _, _, _)
TimeFields(txt, scheme, pos, k) ==
  IF k > Len(scheme) THEN <<>>
  ELSE LET fld == TimeField(txt, pos, scheme[k].lo, scheme[k].hi, scheme[k].lit)
       IN  <<fld>> \o TimeFields(txt, scheme, fld.next, k + 1)

\* datetime.datetime.timestamp(dt) of the fields strptime read
timestamp(dt_str, flds) ==
  LET Y == flds[1]
      mo == flds[2]
      d == flds[3]
      H == flds[4]
      M == flds[5]
      S == flds[6]
      f == flds[7]
      ok == /\ Y.ok /\ Y.val >= 1
            /\ mo.ok /\ mo.val \in 1..12
            /\ d.ok /\ d.val >= 1 /\ d.val <= DaysInMonth(Y.val, mo.val)
            /\ H.ok /\ H.val <= 23
            /\ M.ok /\ M.val <= 59
            /\ S.ok /\ S.val <= 59
            /\ f.ok /\ f.next = Len(dt_str)
      secs == DaysFromCivil(Y.val, mo.val, d.val) * 86400
              + H.val * 3600 + M.val * 60 + S.val
  IN  IF ~ok THEN [none |-> TRUE, val |-> NaN]
      ELSE [none |-> FALSE,
            val |-> IF f.val = 0 THEN Num(secs, 0)
                    ELSE Num(secs * (10 ^ f.len) + f.val, f.len)]

datetime_str_to_float(dt_str) ==
  timestamp(dt_str, TimeFields(dt_str, PDS_DATETIME_FORMAT, 0, 1))

----------------------------------------------------------------------------
(* PDSDataset.load_data: the rows of the table file *)

RECURSIVE MapRows(_, _)
MapRows(lines, sep) ==
  IF lines = <<>> THEN <<>>
  ELSE IF Len(Head(lines)) = 0 THEN MapRows(Tail(lines), sep)
  ELSE <<FilterNonEmpty(Split(Head(lines), sep))>> \o MapRows(Tail(lines), sep)

load_data(text, sep) == MapRows(Split(text, NEWLINE), sep)

\* np.array(rows, dtype=object) is a two-dimensional array when the rows
\* have one length, else a one-dimensional array of lists
Is2D(rows) == Len(rows) > 0 /\ \A i \in 1..Len(rows) : Len(rows[i]) = Len(rows[1])
Width(rows) == IF Len(rows) > 0 THEN Len(rows[1]) ELSE 0

----------------------------------------------------------------------------
(* PDSDataset queries.  A query gives a record: exc, the exception it      *)
(* raised ("" when it returned), val, the value it returned, and, for the  *)
(* queries that write, data, the raw table after the call.                 *)

\* dt_str.replace("\"", "")
RECURSIVE RemoveQuotes(_)
RemoveQuotes(txt) ==
  IF txt = <<>> THEN <<>>
  ELSE IF Head(txt) = "\"" THEN RemoveQuotes(Tail(txt))
  ELSE <<Head(txt)>> \o RemoveQuotes(Tail(txt))

\* PDSDataset.column_datatype; warned: the datatype warning was printed
column_datatype(nodes, col_name) ==
  LET col == find_column_by_name(nodes, col_name)
      raw == get(col, PDS_FIELD_DATATYPE)
      dt_str == RemoveQuotes(raw)
  IN  IF col = NoNode THEN [exc |-> "AttributeError", val |-> "None", warned |-> FALSE]
      ELSE IF raw = None THEN [exc |-> "AttributeError", val |-> "None", warned |-> FALSE]
      ELSE IF dt_str = PDS_FLOAT THEN [exc |-> "", val |-> "float64", warned |-> FALSE]
      ELSE IF dt_str = PDS_INT THEN [exc |-> "", val |-> "intc", warned |-> FALSE]
      ELSE IF dt_str = PDS_DATETIME THEN [exc |-> "", val |-> "TIME", warned |-> FALSE]
      ELSE [exc |-> "", val |-> "None", warned |-> TRUE]

\* PDSDataset.column_index: the entry of the index map, KeyError without one
column_index_or_zero(index_map, col_name) ==
  [exc |-> "", val |-> IF col_name \in DOMAIN index_map THEN index_map[col_name]
                        ELSE IdxInt(0)]
column_index(index_map, col_name) ==
  IF col_name \in DOMAIN index_map
  THEN [exc |-> "", val |-> index_map[col_name]]
  ELSE [exc |-> "KeyError", val |-> IdxInt(0)]

\* self.data[:, ind] can be taken
CanSlice(rows, ind) ==
  /\ Is2D(rows)
  /\ IF ind.list THEN \A j \in 1..Len(ind.v) : ind.v[j] < Width(rows)
                 ELSE ind.v < Width(rows)

\* self.data[:, ind]: one field per row, or one list of fields per row
SliceCol(rows, ind) ==
  IF ind.list
  THEN [i \in 1..Len(rows) |-> [j \in 1..Len(ind.v) |-> rows[i][ind.v[j] + 1]]]
  ELSE [i \in 1..Len(rows) |-> rows[i][ind.v + 1]]

\* The loop of column_data over a one-dimensional column: the field equal
\* to the missing constant, then the field that cannot be converted, is
\* overwritten by "nan"
FillField(field, missing_constant, dt) ==
  LET f1 == IF field = missing_constant THEN kwNAN ELSE field
  IN  IF Coerce(f1, dt).ok THEN f1 ELSE kwNAN
Unable(field, missing_constant, dt) ==
  ~Coerce(IF field = missing_constant THEN kwNAN ELSE field, dt).ok

\* temp_data is a view of self.data: writing temp_data[i] writes the table
WriteColZero(rows, c, col) ==
  [i \in 1..Len(rows) |-> [rows[i] EXCEPT ![c + 1] = <<"0">>]]
WriteCol(rows, c, col) ==
  [i \in 1..Len(rows) |-> [rows[i] EXCEPT ![c + 1] = col[i]]]

\* The body of column_data once the datatype (dtr), the index (ir) and the
\* missing constant of the column are looked up
column_data_of(rows, dtr, ir, missing_constant) ==
  LET dt == dtr.val
      ind == ir.val
      temp_data == SliceCol(rows, ind)
      filled == [i \in 1..Len(rows) |-> FillField(temp_data[i], missing_constant, dt)]
      unable == {i \in 1..Len(rows) : Unable(temp_data[i], missing_constant, dt)}
      Fail(e) == [exc |-> e, val |-> <<>>, data |-> rows, unable |-> {}, dtype |-> "None"]
  IN  IF dtr.exc # "" THEN Fail(dtr.exc)
      ELSE IF ir.exc # "" THEN Fail(ir.exc)
      ELSE IF ~CanSlice(rows, ind) THEN Fail("IndexError")
      ELSE IF dt = "TIME"
      THEN [exc |-> "", data |-> rows, unable |-> {}, dtype |-> "float64",
            val |-> [i \in 1..Len(rows) |->
                       IF ind.list THEN NaN     \* strptime of a row raises
                       ELSE datetime_str_to_float(temp_data[i]).val]]
      ELSE IF dt # "None"
      THEN IF ~ind.list
           THEN LET rows2 == WriteCol(rows, ind.v, filled)
                IN  IF \E i \in 1..Len(rows) : ~Coerce(filled[i], dt).ok
                    THEN [exc |-> "ValueError", val |-> <<>>, data |-> rows2,
                          unable |-> unable, dtype |-> "None"]
                    ELSE [exc |-> "", data |-> rows2, unable |-> unable, dtype |-> dt,
                          val |-> [i \in 1..Len(rows) |-> Coerce(filled[i], dt).val]]
           ELSE IF \E i \in 1..Len(rows) : \E j \in 1..Len(ind.v) :
                      ~Coerce(temp_data[i][j], dt).ok
                THEN Fail("ValueError")
                ELSE [exc |-> "", data |-> rows, unable |-> {}, dtype |-> dt,
                      val |-> [i \in 1..Len(rows) |->
                                 [j \in 1..Len(ind.v) |-> Coerce(temp_data[i][j], dt).val]]]
      ELSE [exc |-> "", val |-> temp_data, data |-> rows, unable |-> {}, dtype |-> "object"]

\* PDSDataset.column_data
column_data(nodes, index_map, rows, col_name) ==
  column_data_of(rows, column_datatype(nodes, col_name),
                 column_index(index_map, col_name),
                 get(find_column_by_name(nodes, col_name), PDS_FIELD_FILLVAL))

\* PDSDataset.column_names: the NAME of every column, None without one
column_names(nodes) ==
  LET cols == iter_column(nodes)
  IN  [i \in 1..Len(cols) |-> get(cols[i], PDS_FIELD_NAME)]

\* PDSDataset.column_name_by_index
RECURSIVE NameByIndexFrom(_, _, _, _)
NameByIndexFrom(names, index_map, index, i) ==
  IF i > Len(names) THEN [exc |-> "", val |-> None]
  ELSE LET ir == column_index(index_map, names[i])
       IN  IF ir.exc # "" THEN [exc |-> ir.exc, val |-> None]
           ELSE IF ir.val = index THEN [exc |-> "", val |-> names[i]]
           ELSE NameByIndexFrom(names, index_map, index, i + 1)
column_name_by_index(nodes, index_map, index) ==
  NameByIndexFrom(column_names(nodes), index_map, index, 1)

\* PDSDataset.has_column
has_column(nodes, col_name) ==
  LET names == column_names(nodes)
  IN  \E i \in 1..Len(names) : names[i] = col_name

\* c.lower()
Upper == <<"A","B","C","D","E","F","G","H","I","J","K","L","M",
           "N","O","P","Q","R","S","T","U","V","W","X","Y","Z">>
LowerCase == <<"a","b","c","d","e","f","g","h","i","j","k","l","m",
               "n","o","p","q","r","s","t","u","v","w","x","y","z">>
LowerChar(c) ==
  IF \E k \in 1..26 : Upper[k] = c
  THEN LowerCase[CHOOSE k \in 1..26 : Upper[k] = c]
  ELSE c
lower(txt) == [i \in 1..Len(txt) |-> LowerChar(txt[i])]

\* sub in txt
IsSubstring(sub, txt) ==
  \E p \in 0..(Len(txt) - Len(sub)) : Slice(txt, p, p + Len(sub)) = sub

\* PDSDataset.time_column_name
RECURSIVE TimeNameFrom(_, _)
TimeNameFrom(names, i) ==
  IF i > Len(names) THEN [exc |-> "", val |-> None]
  ELSE IF names[i] = None THEN [exc |-> "AttributeError", val |-> None]
  ELSE IF IsSubstring(<<"t","i","m","e">>, lower(names[i]))
       THEN [exc |-> "", val |-> names[i]]
       ELSE TimeNameFrom(names, i + 1)
time_column_name(nodes) == TimeNameFrom(column_names(nodes), 1)

\* PDSDataset.time_data; np.array() without an argument raises TypeError
time_data(nodes, index_map, rows) ==
  LET tn == time_column_name(nodes)
      Fail(e) == [exc |-> e, val |-> <<>>, data |-> rows, unable |-> {}, dtype |-> "None"]
  IN  IF tn.exc # "" THEN Fail(tn.exc)
      ELSE IF tn.val = None THEN Fail("TypeError")
      ELSE column_data(nodes, index_map, rows, tn.val)

\* PDSDataset.timespan: t[0], t[-1] of t = self.time_data()
timespan_of(t) ==
  IF t.exc # "" THEN [exc |-> t.exc, val |-> <<>>, data |-> t.data]
  ELSE IF Len(t.val) = 0 THEN [exc |-> "IndexError", val |-> <<>>, data |-> t.data]
  ELSE [exc |-> "", val |-> <<t.val[1], t.val[Len(t.val)]>>, data |-> t.data]
timespan(nodes, index_map, rows) == timespan_of(time_data(nodes, index_map, rows))

\* PDSDataset.summary: shape(), then for every column its datatype, its
\* index and the shape of its data.  val is the number of columns printed.
\* SummaryFrom is the loop from the i-th name on; SummaryLine is its body
\* for one name, given what the three queries of the line gave (dt, ir, cd)
RECURSIVE SummaryFrom(_, _, _, _, _)
SummaryLine(nodes, index_map, rows, names, i, dt, ir, cd) ==
  IF dt.exc # "" THEN [exc |-> dt.exc, val |-> i - 1, data |-> rows]
  ELSE IF ir.exc # "" THEN [exc |-> ir.exc, val |-> i - 1, data |-> rows]
  ELSE IF cd.exc # "" THEN [exc |-> cd.exc, val |-> i - 1, data |-> cd.data]
  ELSE SummaryFrom(nodes, index_map, cd.data, names, i + 1)
SummaryFrom(nodes, index_map, rows, names, i) ==
  IF i > Len(names) THEN [exc |-> "", val |-> Len(names), data |-> rows]
  ELSE SummaryLine(nodes, index_map, rows, names, i,
                   column_datatype(nodes, names[i]),
                   column_index(index_map, names[i]),
                   column_data(nodes, index_map, rows, names[i]))
summary(nodes, index_map, rows) ==
  IF Len(rows) = 0 THEN [exc |-> "IndexError", val |-> 0, data |-> rows]
  ELSE SummaryFrom(nodes, index_map, rows, column_names(nodes), 1)

----------------------------------------------------------------------------
(* The files.  A label file is a wrapper around a body: a list of at most  *)
(* MaxColumns COLUMN objects, one of two longer column lists (Scenarios),  *)
(* or one malformed fragment with or without a COLUMN object before and    *)
(* after it.  A table file comes with the separator its caller passes; the *)
(* rows of the third one are not in the order of their times.              *)

MaxColumns == 2

Ln(k, v) == k \o <<" ", "=", " ">> \o v \o <<NEWLINE>>
Opt(k, v) == IF v = None THEN <<>> ELSE Ln(k, v)
Quoted(txt) == <<"\"">> \o txt \o <<"\"">>
Column(name, dtype, missing, items) ==
  Ln(kwOBJECT, kwCOLUMN) \o Opt(PDS_FIELD_NAME, name)
  \o Opt(PDS_FIELD_DATATYPE, dtype) \o Opt(PDS_FIELD_FILLVAL, missing)
  \o Opt(kwITEMS, items) \o Ln(kwEND_OBJECT, kwCOLUMN)

kwTABLE == <<"T","A","B","L","E">>
kwCONTAINER == <<"C","O","N","T","A","I","N","E","R">>
kwDESCRIPTION == <<"D","E","S","C","R","I","P","T","I","O","N">>
nameA == <<"A">>
nameB == <<"B">>
nameV == <<"V">>
nameTime == Quoted(<<"T","i","m","e">>)
nameZ == <<"Z">>
TwoLines == Quoted(<<"U","T","C",NEWLINE," "," ","t","i","m","e">>)

colA == Column(nameA, Quoted(PDS_FLOAT), Quoted(<<"-","1">>), None)
colB == Column(nameB, PDS_INT, <<"-","1">>, None)
colV == Column(nameV, PDS_FLOAT, <<"-","1">>, <<"2">>)
colTime ==
  Ln(kwOBJECT, kwCOLUMN) \o Ln(PDS_FIELD_NAME, nameTime)
  \o Ln(PDS_FIELD_DATATYPE, Quoted(PDS_DATETIME))
  \o Ln(kwDESCRIPTION, TwoLines) \o Ln(kwEND_OBJECT, kwCOLUMN)
LabelColumns == {colA, colB, colV, colTime}

\* a column whose DATA_TYPE is no recognised tag, one without DATA_TYPE,
\* one without NAME, an attribute whose quoted value spans two lines, and
\* a last line that has text after its quoted value and no newline
kwDESC == <<"D","E","S","C">>
colU == Column(<<"U">>, <<"C","H","A","R","A","C","T","E","R">>, None, None)
colN == Column(<<"N">>, None, None, None)
colNoName == Column(None, PDS_FLOAT, None, None)
DescAttr ==
  Ln(kwDESC, Quoted(<<"l","i","n","e"," ","o","n","e",NEWLINE,
                      "l","i","n","e"," ","t","w","o">>))
LastLine == <<"D"," ","="," ","\"","a","\""," ","b">>
\* the columns A and B carrying COLUMN_NUMBER attributes
NumberedColumn(name, number) ==
  Ln(kwOBJECT, kwCOLUMN) \o Ln(PDS_FIELD_NAME, name)
  \o Opt(PDS_FIELD_COLNUM, number) \o Ln(kwEND_OBJECT, kwCOLUMN)
Unnumbered == NumberedColumn(nameA, None) \o NumberedColumn(nameB, None)
NumberedDown ==
  NumberedColumn(nameA, <<"2">>) \o NumberedColumn(nameB, <<"1">>)
NumberedUp ==
  NumberedColumn(nameA, <<"1">>) \o NumberedColumn(nameB, <<"2">>)
\* a tuple value that spans two lines, and one with nested parentheses
TupleAttrs ==
  <<"T"," ","="," ","(","1",",",NEWLINE,"2",")",NEWLINE>>
  \o <<"P"," ","="," ","(","(","1",")",",","2",")",NEWLINE>>

\* Time, A, V with the four-field table; two scalar columns, a column with
\* ITEMS = 3 and the column after it; the columns and the attribute above
colW == Column(<<"W">>, PDS_FLOAT, None, <<"3">>)
Scenarios ==
  { colTime \o colA \o colV, colA \o colB \o colW \o colTime,
    colU \o colN, colNoName \o colTime, DescAttr \o colA, colA \o LastLine,
    TupleAttrs \o colA, Unnumbered, NumberedDown, NumberedUp }

\* a line without '=', an object that is never closed, a quote that is
\* never closed, an assignment that ends the text
NoAssignment == <<"X", NEWLINE>>
OpenObject == Ln(kwOBJECT, kwCOLUMN)
OpenQuote == <<"D"," ","="," ","\"","x",NEWLINE>>
BareAssignment == <<"K","=",NEWLINE>>
Malformed == {NoAssignment, OpenObject, OpenQuote, BareAssignment}

RECURSIVE Concat(_)
Concat(seqs) == IF seqs = <<>> THEN <<>> ELSE Head(seqs) \o Concat(Tail(seqs))

LabelBodies ==
  UNION { { Concat(q) : q \in [1..n -> LabelColumns] } : n \in 0..MaxColumns }
  \cup Scenarios
  \cup { pre \o j \o post : pre \in {<<>>, colA}, j \in Malformed, post \in {<<>>, colA} }

Wrap(w, body) ==
  IF w = "TABLE"
  THEN Ln(kwOBJECT, kwTABLE) \o body \o Ln(kwEND_OBJECT, kwTABLE)
       \o PDS_END_TAG \o <<NEWLINE>>
  ELSE IF w = "CONTAINER"
  THEN Ln(kwOBJECT, kwTABLE) \o Ln(kwOBJECT, kwCONTAINER) \o body
       \o Ln(kwEND_OBJECT, kwCONTAINER) \o Ln(kwEND_OBJECT, kwTABLE)
  ELSE body

LabelTexts == { Wrap(w, b) : w \in {"", "TABLE", "CONTAINER"}, b \in LabelBodies }

TimeA == <<"2","0","2","0","-","0","1","-","0","1","T","0","0",":","0","0",":","0","0",".","0","0","0","Z">>
TimeB == <<"2","0","2","0","-","0","1","-","0","1","T","0","0",":","0","1",":","0","0",".","0","0","0","Z">>
TableFiles ==
  { [sep |-> " ",
     text |-> TimeA \o <<" ","-","1"," ","1",".","0"," ","2",".","0",NEWLINE>>
              \o TimeB \o <<" ","3",".","5"," ","4",".","0"," ","5",".","0",NEWLINE>>],
    [sep |-> ",",
     text |-> <<"-","1",",",",","x",",","2",",",NEWLINE,NEWLINE,
                ",","3",".","5",",","-","1",",","n","o",NEWLINE>>],
    [sep |-> ",",
     text |-> TimeB \o <<",","1",".","0",NEWLINE>>
              \o TimeA \o <<",","2",".","0",NEWLINE>>] }

\* The names a caller asks for: those of the label and one it does not have
QueryNames(nodes) ==
  ({ column_names(nodes)[i] : i \in 1..Len(column_names(nodes)) } \ {None})
  \cup {nameZ}
QueryIndexes == { IdxInt(0), IdxInt(1), IdxList(<<1, 2>>) }

----------------------------------------------------------------------------
(* State.  label_text, table_text and table_sep are the two files and the  *)
(* separator PDSDataset.__init__ is given.  pc follows the constructor:    *)
(* load (load_data), parse (the loop of PDSLabel.parse over the remaining  *)
(* text s), index (the loop of set_column_index_map, col_pos columns       *)
(* done), ready (constructed: the queries), raised (the constructor raised *)
(* exc), hang (the constructor loops forever).  result is what the last    *)
(* query returned or raised.                                               *)

VARIABLES label_text, table_text, table_sep, pc, exc, s, label_data,
          col_pos, prev_index, column_index_map, data, result

vars == <<label_text, table_text, table_sep, pc, exc, s, label_data,
          col_pos, prev_index, column_index_map, data, result>>

EmptyMap == [x \in {} |-> IdxInt(0)]
NoResult == [op |-> "", exc |-> ""]

Init ==
  /\ label_text \in LabelTexts
  /\ \E f \in TableFiles : table_text = f.text /\ table_sep = f.sep
  /\ pc = "load"
  /\ exc = ""
  /\ s = <<>>
  /\ label_data = <<>>
  /\ col_pos = 0
  /\ prev_index = 0
  /\ column_index_map = EmptyMap
  /\ data = <<>>
  /\ result = NoResult

\* PDSDataset.__init__ up to PDSLabel.parse reading the label file
LoadData ==
  /\ pc = "load"
  /\ data' = load_data(table_text, table_sep)
  /\ s' = label_text
  /\ pc' = "parse"
  /\ UNCHANGED <<label_text, table_text, table_sep, exc, label_data,
                 col_pos, prev_index, column_index_map, result>>

\* One iteration of the loop of PDSLabel.parse
ParseStep ==
  /\ pc = "parse"
  /\ Len(s) > 0
  /\ LET r == LabelNext(s)
     IN  IF r.exc # ""
         THEN pc' = "raised" /\ exc' = r.exc /\ UNCHANGED <<s, label_data>>
         ELSE IF r.hang \/ r.rest = s
         THEN pc' = "hang" /\ UNCHANGED <<exc, s, label_data>>
         ELSE /\ s' = r.rest
              /\ label_data' = IF valid(r.obj) THEN Append(label_data, r.obj)
                               ELSE label_data
              /\ UNCHANGED <<pc, exc>>
  /\ UNCHANGED <<label_text, table_text, table_sep, col_pos, prev_index,
                 column_index_map, data, result>>

\* The loop of PDSLabel.parse ends; PDSLabel.__init__ goes on to the index
ParseDone ==
  /\ pc = "parse"
  /\ Len(s) = 0
  /\ pc' = "index"
  /\ col_pos' = 0
  /\ prev_index' = 0
  /\ column_index_map' = EmptyMap
  /\ UNCHANGED <<label_text, table_text, table_sep, exc, s, label_data,
                 data, result>>

\* One iteration of the loop of PDSLabel.set_column_index_map
IndexStep ==
  /\ pc = "index"
  /\ col_pos < Len(iter_column(label_data))
  /\ LET o == iter_column(label_data)[col_pos + 1]
         temp_name == get(o, PDS_FIELD_NAME)
         temp_items == get(o, kwITEMS)
         n == IntParse(temp_items)
         lst == RangeFrom(prev_index, n.val)
     IN  IF temp_items # None
         THEN IF ~n.ok
              THEN /\ pc' = "raised" /\ exc' = "ValueError"
                   /\ UNCHANGED <<col_pos, prev_index, column_index_map>>
              ELSE /\ column_index_map' = DictSet(column_index_map, temp_name, IdxList(lst))
                   /\ IF Len(lst) = 0
                      THEN /\ pc' = "raised" /\ exc' = "IndexError"
                           /\ UNCHANGED <<col_pos, prev_index>>
                      ELSE /\ prev_index' = NextFree(lst)
                           /\ col_pos' = col_pos + 1
                           /\ UNCHANGED <<pc, exc>>
         ELSE /\ column_index_map' = DictSet(column_index_map, temp_name, IdxInt(prev_index))
              /\ prev_index' = prev_index + 1
              /\ col_pos' = col_pos + 1
              /\ UNCHANGED <<pc, exc>>
  /\ UNCHANGED <<label_text, table_text, table_sep, s, label_data, data, result>>

\* The loop of set_column_index_map ends: the dataset is constructed
IndexDone ==
  /\ pc = "index"
  /\ col_pos = Len(iter_column(label_data))
  /\ pc' = "ready"
  /\ UNCHANGED <<label_text, table_text, table_sep, exc, s, label_data,
                 col_pos, prev_index, column_index_map, data, result>>

Frame == UNCHANGED <<label_text, table_text, table_sep, pc, exc, s, label_data,
                     col_pos, prev_index, column_index_map>>

ColumnData ==
  /\ pc = "ready"
  /\ \E col_name \in QueryNames(label_data) :
       \E r \in {column_data(label_data, column_index_map, data, col_name)} :
           /\ result' = [op |-> "column_data", arg |-> col_name, exc |-> r.exc,
                         val |-> r.val, unable |-> r.unable, dtype |-> r.dtype]
           /\ data' = r.data
  /\ Frame

ColumnDatatype ==
  /\ pc = "ready"
  /\ \E col_name \in QueryNames(label_data) :
       \E r \in {column_datatype(label_data, col_name)} :
           result' = [op |-> "column_datatype", arg |-> col_name, exc |-> r.exc,
                      val |-> r.val, warned |-> r.warned]
  /\ UNCHANGED data
  /\ Frame

ColumnIndex ==
  /\ pc = "ready"
  /\ \E col_name \in QueryNames(label_data) :
       LET r == column_index(column_index_map, col_name)
       IN  result' = [op |-> "column_index", arg |-> col_name, exc |-> r.exc,
                      val |-> r.val]
  /\ UNCHANGED data
  /\ Frame

ColumnNameByIndex ==
  /\ pc = "ready"
  /\ \E index \in QueryIndexes :
       LET r == column_name_by_index(label_data, column_index_map, index)
       IN  result' = [op |-> "column_name_by_index", arg |-> index, exc |-> r.exc,
                      val |-> r.val]
  /\ UNCHANGED data
  /\ Frame

HasColumn ==
  /\ pc = "ready"
  /\ \E col_name \in QueryNames(label_data) :
       result' = [op |-> "has_column", arg |-> col_name, exc |-> "",
                  val |-> has_column(label_data, col_name)]
  /\ UNCHANGED data
  /\ Frame

TimeColumnName ==
  /\ pc = "ready"
  /\ LET r == time_column_name(label_data)
     IN  result' = [op |-> "time_column_name", exc |-> r.exc, val |-> r.val]
  /\ UNCHANGED data
  /\ Frame

TimeData ==
  /\ pc = "ready"
  /\ \E r \in {time_data(label_data, column_index_map, data)} :
         /\ result' = [op |-> "time_data", exc |-> r.exc, val |-> r.val]
         /\ data' = r.data
  /\ Frame

Timespan ==
  /\ pc = "ready"
  /\ \E r \in {timespan(label_data, column_index_map, data)} :
         /\ result' = [op |-> "timespan", exc |-> r.exc, val |-> r.val]
         /\ data' = r.data
  /\ Frame

Summary ==
  /\ pc = "ready"
  /\ \E r \in {summary(label_data, column_index_map, data)} :
         /\ result' = [op |-> "summary", exc |-> r.exc, val |-> r.val]
         /\ data' = r.data
  /\ Frame

Query ==
  \/ ColumnData \/ ColumnDatatype \/ ColumnIndex \/ ColumnNameByIndex
  \/ HasColumn \/ TimeColumnName \/ TimeData \/ Timespan \/ Summary

Next ==
  \/ LoadData \/ ParseStep \/ ParseDone \/ IndexStep \/ IndexDone
  \/ Query

Spec == Init /\ [][Next]_vars

----------------------------------------------------------------------------
(* Reference notions the properties are stated with *)

\* Every object named COLUMN of a tree, whatever its depth and its parents,
\* in depth-first pre-order
RECURSIVE DocColumns(_, _)
DocColumns(children, i) ==
  IF i > Len(children) THEN <<>>
  ELSE LET o == children[i]
       IN  (IF o.kind = "obj"
            THEN (IF o.name = kwCOLUMN THEN <<o>> ELSE <<>>) \o DocColumns(o.value, 1)
            ELSE <<>>)
           \o DocColumns(children, i + 1)

Constructed == pc = "ready"
RawTable == load_data(table_text, table_sep)
IsScalarColumn(o) == get(o, kwITEMS) = None
ColumnWidth(o) == IF IsScalarColumn(o) THEN 1 ELSE IntParse(get(o, kwITEMS)).val
RECURSIVE SumWidths(_, _)
SumWidths(cols, n) == IF n = 0 THEN 0 ELSE SumWidths(cols, n - 1) + ColumnWidth(cols[n])
MapValues == { column_index_map[k] : k \in DOMAIN column_index_map }

----------------------------------------------------------------------------
(* C1: building a PDSLabel never raises, whatever the label text: the      *)
(* attribute parser, the label parser and the column-index pass all        *)
(* complete.                                                               *)
C1_NeverRaises == pc # "raised"

(* C2: label parsing terminates on every text: every call of               *)
(* PDSAttribute.next on a non-empty text returns a strictly shorter text,  *)
(* so the loops of PDSLabel.parse and PDSLabel.next never run forever.     *)
C2_ParsingTerminates ==
  /\ pc # "hang"
  /\ (pc = "parse" /\ Len(s) > 0 /\ AttrNext(s).exc = "")
        => Len(AttrNext(s).rest) < Len(s)

(* C3: for a label that declares N scalar COLUMN objects and no vector     *)
(* column, the column index map holds exactly the offsets 0..N-1, the k-th *)
(* column in document order having offset k-1.                             *)
C3_ScalarOffsets ==
  LET cols == DocColumns(label_data, 1)
      N == Len(cols)
  IN  (Constructed /\ \A k \in 1..N : IsScalarColumn(cols[k]))
        => /\ MapValues = { IdxInt(i) : i \in 0..(N - 1) }
           /\ \A k \in 1..N :
                /\ get(cols[k], PDS_FIELD_NAME) \in DOMAIN column_index_map
                /\ column_index_map[get(cols[k], PDS_FIELD_NAME)] = IdxInt(k - 1)

(* C4: the offsets are assigned in one left-to-right pass that starts at   *)
(* 0: a scalar column gets the next free offset and advances it by 1, a    *)
(* column with ITEMS = k gets the k offsets next..next+k-1 and advances it *)
(* by k; at every point of the pass the next free offset is the number of  *)
(* offsets given to the columns before, so the offsets are contiguous,     *)
(* increasing and gap-free over the column list.                           *)
C4_StepAssigns ==
  LET o == iter_column(label_data)[col_pos + 1]
      name == get(o, PDS_FIELD_NAME)
      k == ColumnWidth(o)
  IN  (pc = "index" /\ pc' = "index" /\ col_pos' = col_pos + 1)
        => /\ name \in DOMAIN column_index_map'
           /\ IF IsScalarColumn(o)
              THEN column_index_map'[name] = IdxInt(prev_index)
              ELSE /\ k >= 1
                   /\ column_index_map'[name].list
                   /\ column_index_map'[name].v = [i \in 1..k |-> prev_index + i - 1]
           /\ prev_index' = prev_index + k
C4_NextFreeIsSum ==
  pc \in {"index", "ready"}
    => prev_index = SumWidths(iter_column(label_data), col_pos)
C4_OnePassOffsets == []C4_NextFreeIsSum /\ [][C4_StepAssigns]_vars
C4_Witness ==
  /\ Constructed
  /\ <<"W">> \in DOMAIN column_index_map
  /\ column_index_map[<<"W">>] = IdxList(<<2, 3, 4>>)
  /\ nameTime \in DOMAIN column_index_map
  /\ column_index_map[nameTime] = IdxInt(5)

(* C5: the column walk visits every object named COLUMN of the parsed      *)
(* tree, at any depth and under parents of any type, exactly once and in   *)
(* depth-first pre-order.                                                  *)
C5_WalkVisitsEveryColumn ==
  pc \in {"index", "ready"}
    => /\ iter_column(label_data) = DocColumns(label_data, 1)
       /\ column_count(label_data) = Len(DocColumns(label_data, 1))

(* C6: a line without '=' or an object without its END_OBJECT is recovered *)
(* locally: only the offending node is missing from the tree, which is the *)
(* tree of the label without that node; what is well formed before it,     *)
(* after it or around it is still there.                                   *)
C6_LocalRecovery ==
  \A w \in {"", "TABLE", "CONTAINER"} : \A pre \in {<<>>, colA} :
  \A post \in {<<>>, colA} : \A j \in {NoAssignment, OpenObject} :
    (label_text = Wrap(w, pre \o j \o post) /\ pc \notin {"load", "parse"})
      => /\ pc \in {"index", "ready"}
         /\ label_data = ParseText(Wrap(w, pre \o post))

----------------------------------------------------------------------------
(* The column the last column_data call was about *)
AskedColumn == find_column_by_name(label_data, result.arg)
AskedType == column_datatype(label_data, result.arg).val
AskedIndex == column_index(column_index_map, result.arg).val
AskedMissing == get(AskedColumn, PDS_FIELD_FILLVAL)
\* column_data was called for a numeric column whose offsets the table has
NumericColumnAsked ==
  /\ Constructed
  /\ result.op = "column_data"
  /\ column_datatype(label_data, result.arg).exc = ""
  /\ AskedType \in {"float64", "intc"}
  /\ result.arg \in DOMAIN column_index_map
  /\ CanSlice(RawTable, AskedIndex)
\* The value the per-field rule gives a raw field: NaN for the missing
\* constant and for what cannot be converted, else the converted value
FieldRule(raw, missing, dt) ==
  IF raw = missing \/ ~Coerce(raw, dt).ok THEN NaN ELSE Coerce(raw, dt).val

(* C7: for a numeric column whose label declares its MISSING_CONSTANT in   *)
(* quotes (MISSING_CONSTANT = "-9999"), column_data yields NaN at every    *)
(* row whose raw field is that constant and the converted raw value at     *)
(* every other row.                                                        *)
C7_MissingValueSubstitution ==
  (NumericColumnAsked /\ ~AskedIndex.list /\ Contains(AskedMissing, "\""))
    => /\ result.exc = ""
       /\ \A i \in 1..Len(RawTable) :
            LET raw == RawTable[i][AskedIndex.v + 1]
            IN  IF raw = RemoveQuotes(AskedMissing) THEN result.val[i] = NaN
                ELSE Coerce(raw, AskedType).ok
                       => result.val[i] = Coerce(raw, AskedType).val

(* C8: for a numeric column of either recognised type, column_data never   *)
(* raises: a raw field that cannot be converted gives NaN (the fields the  *)
(* call reports are among them), and the array has the dtype that          *)
(* column_datatype gives for the column.                                   *)
C8_NumericNeverRaises ==
  NumericColumnAsked
    => /\ result.exc = ""
       /\ result.dtype = AskedType
       /\ ~AskedIndex.list =>
            \A i \in 1..Len(RawTable) :
               (\/ i \in result.unable
                \/ ~Coerce(RawTable[i][AskedIndex.v + 1], AskedType).ok)
                 => result.val[i] = NaN

(* C9: for a numeric vector column (ITEMS = k), column_data returns a      *)
(* rows-by-k array built with the per-field rule of a scalar column: a     *)
(* sub-field equal to the MISSING_CONSTANT or one that cannot be converted *)
(* gives NaN, without raising, every other sub-field its converted value.  *)
C9_VectorColumn ==
  (NumericColumnAsked /\ AskedIndex.list)
    => /\ result.exc = ""
       /\ Len(result.val) = Len(RawTable)
       /\ \A i \in 1..Len(RawTable) : \A j \in 1..Len(AskedIndex.v) :
            result.val[i][j]
              = FieldRule(RawTable[i][AskedIndex.v[j] + 1], AskedMissing, AskedType)

(* C10: a PDSDataset is immutable after construction: no query changes a   *)
(* cell of the raw table, the label tree or the column index map.          *)
C10_ImmutableAfterConstruction ==
  [][Constructed => /\ data' = data
                    /\ label_data' = label_data
                    /\ column_index_map' = column_index_map]_vars

----------------------------------------------------------------------------
(* C11: when no column name of the dataset contains "time"                 *)
(* (time_column_name() is none), time_data() returns an empty array rather *)
(* than raising.                                                           *)
C11_EmptyWithoutTimeColumn ==
  (/\ Constructed
   /\ result.op = "time_data"
   /\ time_column_name(label_data).exc = ""
   /\ time_column_name(label_data).val = None)
    => /\ result.exc = ""
       /\ result.val = <<>>

----------------------------------------------------------------------------
(* The columns the label declares: the names of its COLUMN objects, and    *)
(* for a name the first COLUMN object in document order that has it        *)
DeclaredNames ==
  { get(DocColumns(label_data, 1)[k], PDS_FIELD_NAME) :
      k \in 1..Len(DocColumns(label_data, 1)) } \ {None}
FirstDeclared(n) ==
  LET cols == DocColumns(label_data, 1)
      k == CHOOSE i \in 1..Len(cols) :
             /\ get(cols[i], PDS_FIELD_NAME) = n
             /\ \A j \in 1..(i - 1) : get(cols[j], PDS_FIELD_NAME) # n
  IN  cols[k]
\* the DATA_TYPE tag of a column without its quotes, None without DATA_TYPE
DeclaredTag(n) ==
  LET raw == get(FirstDeclared(n), PDS_FIELD_DATATYPE)
  IN  IF raw = None THEN None ELSE SelectSeq(raw, LAMBDA ch : ch # "\"")

(* C12: column_datatype never raises for a column declared in the label:   *)
(* the tags ASCII_REAL, ASCII_INTEGER and TIME, with or without quotes,    *)
(* give float64, int32 and "TIME"; every other declared column, whatever   *)
(* attributes it has, gives none together with a warning.                  *)
C12_DatatypeNeverRaises ==
  (Constructed /\ result.op = "column_datatype" /\ result.arg \in DeclaredNames)
    => LET tag == DeclaredTag(result.arg)
       IN  /\ result.exc = ""
           /\ tag = PDS_FLOAT => (result.val = "float64" /\ ~result.warned)
           /\ tag = PDS_INT => (result.val = "intc" /\ ~result.warned)
           /\ tag = PDS_DATETIME => (result.val = "TIME" /\ ~result.warned)
           /\ tag \notin {PDS_FLOAT, PDS_INT, PDS_DATETIME}
                => (result.val = "None" /\ result.warned)

----------------------------------------------------------------------------
\* Names a caller may look up that a label need not declare: a new name,
\* a declared name without its quotes or in another case, a keyword, ""
LookupNames ==
  { nameZ, <<"T","i","m","e">>, <<"a">>, kwCOLUMN, PDS_FIELD_NAME, <<>> }

(* C13: looking up a column name that no COLUMN object declares gives an   *)
(* explicit not-found signal: find_column_by_name returns none and         *)
(* column_index raises an error; neither returns an offset for the name.   *)
C13_NotFoundSignal ==
  /\ (Constructed /\ result.op = "column_index" /\ result.arg \notin DeclaredNames)
       => result.exc = "KeyError"
  /\ Constructed =>
       \A n \in LookupNames \ DeclaredNames :
          /\ find_column_by_name(label_data, n) = NoNode
          /\ column_index(column_index_map, n).exc = "KeyError"
C13_Witness ==
  /\ Constructed
  /\ Len(iter_column(label_data)) = 2
  /\ result.op = "column_index"
  /\ result.arg = nameZ
  /\ result.exc = "KeyError"

----------------------------------------------------------------------------
\* The names of the declared columns that contain "time" in any case, and
\* the first of them in document order
IsTimeName(n) == n # None /\ IsSubstring(<<"t","i","m","e">>, lower(n))
TimeNamed ==
  { k \in 1..Len(DocColumns(label_data, 1)) :
      IsTimeName(get(DocColumns(label_data, 1)[k], PDS_FIELD_NAME)) }
FirstTimeName ==
  get(DocColumns(label_data, 1)[CHOOSE k \in TimeNamed : \A j \in TimeNamed : k <= j],
      PDS_FIELD_NAME)

(* C14: timespan() returns the pair (first element, last element) of the   *)
(* data of the first column in document order whose name contains "time"   *)
(* case-insensitively: the value of the first and of the last table row,   *)
(* not the minimum and the maximum, whatever the row order.                *)
C14_TimespanFirstLast ==
  (Constructed /\ result.op = "timespan" /\ TimeNamed # {})
    => LET d == column_data(label_data, column_index_map, RawTable, FirstTimeName)
       IN  (d.exc = "" /\ Len(d.val) > 0)
             => /\ result.exc = ""
                /\ result.val = <<d.val[1], d.val[Len(d.val)]>>

----------------------------------------------------------------------------
\* The length of the shortest text %Y-%m-%dT%H:%M:%S.%fZ matches: the
\* fewest digits of each of its fields and one literal after each
RECURSIVE FewestDigits(_)
FewestDigits(k) ==
  IF k = 0 THEN 0 ELSE FewestDigits(k - 1) + PDS_DATETIME_FORMAT[k].lo
ShortestTime == FewestDigits(Len(PDS_DATETIME_FORMAT)) + Len(PDS_DATETIME_FORMAT)

(* C15: for a TIME column, column_data returns one float64 per table row:  *)
(* a field that matches %Y-%m-%dT%H:%M:%S.%fZ gives its UTC epoch seconds  *)
(* (2020-01-01T00:00:00.000Z gives 1577836800.0), a field that does not    *)
(* match gives NaN; no field makes the call raise.                         *)
C15_TimeColumn ==
  (/\ Constructed
   /\ result.op = "column_data"
   /\ result.arg \in DeclaredNames
   /\ DeclaredTag(result.arg) = PDS_DATETIME
   /\ result.arg \in DOMAIN column_index_map
   /\ CanSlice(RawTable, AskedIndex))
    => /\ result.exc = ""
       /\ result.dtype = "float64"
       /\ Len(result.val) = Len(RawTable)
       /\ ~AskedIndex.list =>
            \A i \in 1..Len(RawTable) :
               LET raw == RawTable[i][AskedIndex.v + 1]
               IN  /\ raw = TimeA => result.val[i] = [nan |-> FALSE, m |-> 1577836800, e |-> 0]
                   /\ raw = TimeB => result.val[i] = [nan |-> FALSE, m |-> 1577836860, e |-> 0]
                   /\ Len(raw) < ShortestTime => result.val[i] = NaN
C15_Witness ==
  /\ Constructed
  /\ result.op = "column_data"
  /\ result.arg = nameTime
  /\ result.exc = ""
  /\ \E i \in 1..Len(result.val) : result.val[i] = [nan |-> FALSE, m |-> 1577836800, e |-> 0]

----------------------------------------------------------------------------
\* A text that starts with an attribute whose value opens with a double
\* quote right after "= " and is closed by a second double quote: no
\* newline and no quote comes before the '='
OpensQuoted(t) ==
  LET as_pos == Find(t, ASSIGNMENT, 0)
      nl_pos == Find(t, NEWLINE, 0)
      q1 == Find(t, STRBEG, 0)
  IN  /\ as_pos >= 0
      /\ nl_pos < 0 \/ as_pos < nl_pos
      /\ q1 = as_pos + 2
      /\ Find(t, STRBEG, q1 + 1) >= 0
\* the position of the closing quote
ClosingQuote(t) == Find(t, STRBEG, Find(t, STRBEG, 0) + 1)
NonSpace(txt) == SelectSeq(txt, LAMBDA ch : ch # " ")
\* what the attribute parser gives for such a text is one attribute made
\* of the text up to the closing quote, and the text after that quote
QuotedAsOne(t) ==
  LET as_pos == Find(t, ASSIGNMENT, 0)
      r == AttrNext(t)
  IN  /\ r.exc = ""
      /\ r.obj.kind = "att"
      /\ r.obj.name = str_rem_ends(Slice(t, 0, as_pos), " ")
      /\ r.obj.value # None
      /\ NonSpace(r.obj.value) = NonSpace(Slice(t, as_pos + 1, ClosingQuote(t) + 1))
      /\ r.rest = SliceFrom(t, ClosingQuote(t) + 1)

(* C16: when an attribute's value opens with a double quote at the         *)
(* position right after "= ", the attribute parser takes everything up to  *)
(* the second double quote, embedded newlines included, as one attribute,  *)
(* and the remaining text starts immediately after the closing quote, not  *)
(* at the embedded newline.  Stated for the text the parser is at and for  *)
(* every later position of it.                                             *)
C16_QuotedValue ==
  pc = "parse" =>
    \A p \in 0..(Len(s) - 1) :
       OpensQuoted(SliceFrom(s, p)) => QuotedAsOne(SliceFrom(s, p))

----------------------------------------------------------------------------
\* The COLUMN objects of the label have pairwise distinct names
DistinctNames ==
  LET cols == DocColumns(label_data, 1)
  IN  \A i, j \in 1..Len(cols) :
        i # j => get(cols[i], PDS_FIELD_NAME) # get(cols[j], PDS_FIELD_NAME)
\* The indexes column_index gives for the declared names
DeclaredIndexes ==
  { column_index(column_index_map, n).val :
      n \in { d \in DeclaredNames : column_index(column_index_map, d).exc = "" } }

(* C17: column_name_by_index is the reverse of column_index: in a label    *)
(* with pairwise distinct column names,                                    *)
(* column_name_by_index(column_index(n)) = n for every column name n, and  *)
(* for an index that is the index of no column the result is none.         *)
C17_ReverseLookup ==
  (Constructed /\ DistinctNames)
    => /\ \A n \in DeclaredNames :
            /\ column_index(column_index_map, n).exc = ""
            /\ column_name_by_index(label_data, column_index_map,
                                    column_index(column_index_map, n).val)
                 = [exc |-> "", val |-> n]
       /\ (result.op = "column_name_by_index" /\ result.arg \notin DeclaredIndexes)
            => (result.exc = "" /\ result.val = None)

----------------------------------------------------------------------------
\* The maximal runs of characters other than c in txt, as pairs of their
\* first and last position, and the texts of these runs from left to right
Runs(txt, c) ==
  { r \in (1..Len(txt)) \X (1..Len(txt)) :
      /\ r[1] <= r[2]
      /\ \A i \in r[1]..r[2] : txt[i] # c
      /\ r[1] = 1 \/ txt[r[1] - 1] = c
      /\ r[2] = Len(txt) \/ txt[r[2] + 1] = c }
RunTexts(txt, c) ==
  LET R == Runs(txt, c)
  IN  [k \in 1..Cardinality(R) |->
         LET r == CHOOSE q \in R : Cardinality({p \in R : p[1] < q[1]}) = k - 1
         IN  SubSeq(txt, r[1], r[2])]
\* the table file has just been loaded
JustLoaded == pc = "parse" /\ s = label_text /\ label_data = <<>>

(* C18: load_data produces one row per non-empty line of the table file,   *)
(* each row being the sequence of the non-empty tokens obtained by         *)
(* splitting the line on the caller's separator: no row contains an empty  *)
(* field and a run of consecutive separators counts as one.                *)
C18_LoadData ==
  JustLoaded =>
    LET lines == RunTexts(table_text, NEWLINE)
    IN  /\ data = [k \in 1..Len(lines) |-> RunTexts(lines[k], table_sep)]
        /\ \A i \in 1..Len(data) : \A j \in 1..Len(data[i]) :
              /\ data[i][j] # <<>>
              /\ ~Contains(data[i][j], table_sep)
C18_Witness ==
  /\ JustLoaded
  /\ table_sep = ","
  /\ data = << << <<"-","1">>, <<"x">>, <<"2">> >>,
               << <<"3",".","5">>, <<"-","1">>, <<"n","o">> >> >>

----------------------------------------------------------------------------
\* What column_data gives on a dataset freshly constructed from the same
\* two files: the same label tree and index map, the table as loaded
FreshColumnData(col_name) ==
  column_data(label_data, column_index_map, RawTable, col_name)

----------------------------------------------------------------------------
(* The string utilities of src/str_utils.py called on their own.  s is the *)
(* text the function is given, result what it returned; pc goes from call  *)
(* to done.  The variables of the dataset keep their initial values.       *)

MaxLen == 4
StrAlphabet == {"a", "b", " ", "-", "7"}
StrTexts == UNION { [1..n -> StrAlphabet] : n \in 0..MaxLen }

StrInit ==
  /\ s \in StrTexts
  /\ pc = "call"
  /\ label_text = <<>>
  /\ table_text = <<>>
  /\ table_sep = " "
  /\ exc = ""
  /\ label_data = <<>>
  /\ col_pos = 0
  /\ prev_index = 0
  /\ column_index_map = EmptyMap
  /\ data = <<>>
  /\ result = NoResult

\* str_rem_successive(s, c) for the default c and for another character
StrRemSuccessive ==
  /\ pc = "call"
  /\ \E c \in {" ", "-"} :
       result' = [op |-> "str_rem_successive", arg |-> c, exc |-> "",
                  val |-> str_rem_successive(s, c)]
  /\ pc' = "done"
  /\ UNCHANGED <<label_text, table_text, table_sep, exc, s, label_data,
                 col_pos, prev_index, column_index_map, data>>

\* str_is_integer(s)
StrIsInteger ==
  /\ pc = "call"
  /\ result' = [op |-> "str_is_integer", arg |-> "", exc |-> "",
                val |-> str_is_integer(s)]
  /\ pc' = "done"
  /\ UNCHANGED <<label_text, table_text, table_sep, exc, s, label_data,
                 col_pos, prev_index, column_index_map, data>>

StrNext == StrRemSuccessive \/ StrIsInteger

StrSpec == StrInit /\ [][StrNext]_vars

\* txt with every occurrence of c that follows an occurrence of c removed
RECURSIVE Squeeze(_, _)
Squeeze(txt, c) ==
  IF Len(txt) <= 1 THEN txt
  ELSE IF txt[1] = c /\ txt[2] = c THEN Squeeze(Tail(txt), c)
  ELSE <<txt[1]>> \o Squeeze(Tail(txt), c)

(* C20: str_rem_successive(s, c) returns s with every run of successive    *)
(* occurrences of c replaced by a single occurrence of c and nothing else  *)
(* added, removed or replaced (for the default c = " ", "a  b" becomes     *)
(* "a b").                                                                 *)
C20_RunsBecomeOne ==
  (pc = "done" /\ result.op = "str_rem_successive")
    => result.val = Squeeze(s, result.arg)

----------------------------------------------------------------------------
(* C21: str_is_integer(s) returns True exactly when s can safely be        *)
(* converted to an integer: for every string it accepts, int(s) succeeds,  *)
(* and it rejects every string that contains a character that is not a     *)
(* decimal digit.                                                          *)
C21_AcceptsOnlyIntegers ==
  (pc = "done" /\ result.op = "str_is_integer")
    => /\ result.val => IntParse(s).ok
       /\ (\E k \in 1..Len(s) : ~IsDigit(s[k])) => ~result.val

----------------------------------------------------------------------------
(* valid() called on the nodes of a tree.  label_data holds one tree, made *)
(* with the constructors PDSAttribute(name, value) and PDSObject(name,     *)
(* value): an attribute, or an object T with at most MaxChildren children, *)
(* each an attribute or an object U with at most one attribute.  A node is *)
(* named by its path, the positions of its ancestors and of itself.        *)

MaxChildren == 2
nameT == <<"T">>
nameU == <<"U">>
LeafNodes ==
  { Att(<<"K">>, <<"v">>), Att(None, None), Att(PDS_END_TAG, None),
    Att(kwEND_OBJECT, nameT), Att(kwEND_OBJECT, nameU) }
InnerNodes == LeafNodes \cup {Obj(nameU, <<>>)} \cup { Obj(nameU, <<a>>) : a \in LeafNodes }
TreeNodes ==
  LeafNodes \cup
  UNION { { Obj(nameT, c) : c \in [1..n -> InnerNodes] } : n \in 0..MaxChildren }

\* the node at a path, and the paths of all the nodes of a list of nodes
RECURSIVE NodeAt(_, _)
NodeAt(nodes, path) ==
  IF Len(path) = 1 THEN nodes[path[1]]
  ELSE NodeAt(nodes[path[1]].value, Tail(path))
RECURSIVE NodePaths(_)
NodePaths(nodes) ==
  UNION { {<<i>>} \cup
          (IF nodes[i].kind = "obj"
           THEN { <<i>> \o q : q \in NodePaths(nodes[i].value) }
           ELSE {}) : i \in 1..Len(nodes) }

\* node.valid(): what it returns and the tree after the call; valid,
\* has_end and is_attribute assign nothing
valid_call_clearing(nodes, path) ==
  [val |-> valid(NodeAt(nodes, path)), tree |-> <<>>]
valid_call(nodes, path) ==
  [val |-> valid(NodeAt(nodes, path)), tree |-> nodes]

NodeInit ==
  /\ label_data \in { <<n>> : n \in TreeNodes }
  /\ pc = "node"
  /\ label_text = <<>>
  /\ table_text = <<>>
  /\ table_sep = " "
  /\ exc = ""
  /\ s = <<>>
  /\ col_pos = 0
  /\ prev_index = 0
  /\ column_index_map = EmptyMap
  /\ data = <<>>
  /\ result = NoResult

Valid ==
  /\ pc = "node"
  /\ \E path \in NodePaths(label_data) :
       \E r \in {valid_call(label_data, path)} :
          /\ result' = [op |-> "valid", arg |-> path, exc |-> "", val |-> r.val]
          /\ label_data' = r.tree
  /\ UNCHANGED <<label_text, table_text, table_sep, pc, exc, s,
                 col_pos, prev_index, column_index_map, data>>

\* PDSObject.add_attribute on the root: the tree is modified
AddAttribute ==
  /\ pc = "node"
  /\ label_data[1].kind = "obj"
  /\ Len(label_data[1].value) < MaxChildren
  /\ \E a \in LeafNodes : label_data' = <<add_attribute(label_data[1], a)>>
  /\ result' = NoResult
  /\ UNCHANGED <<label_text, table_text, table_sep, pc, exc, s,
                 col_pos, prev_index, column_index_map, data>>

NodeNext == Valid \/ AddAttribute

NodeSpec == NodeInit /\ [][NodeNext]_vars

(* C22: valid() is a pure, unmemoized query: called twice on an unmodified *)
(* node (attribute or object, at any depth) it returns the same result,    *)
(* and a call changes nothing in the tree.                                 *)
C22_SecondCallAgrees ==
  result.op = "valid" =>
    /\ result.arg \in NodePaths(label_data)
    /\ result.val = valid(NodeAt(label_data, result.arg))
C22_CallKeepsTree == result'.op = "valid" => label_data' = label_data
----------------------------------------------------------------------------
\* The attributes and the objects of a tree, at every depth
RECURSIVE TreeAttrs(_)
TreeAttrs(nodes) ==
  UNION { IF nodes[i].kind = "obj" THEN TreeAttrs(nodes[i].value) ELSE {nodes[i]} :
            i \in 1..Len(nodes) }
RECURSIVE TreeObjects(_)
TreeObjects(nodes) ==
  UNION { IF nodes[i].kind = "obj"
          THEN {nodes[i]} \cup TreeObjects(nodes[i].value) ELSE {} :
            i \in 1..Len(nodes) }
\* the label has been parsed to its end
Parsed == pc \in {"index", "ready"}

Whitespace == {" ", NEWLINE, "\t", "\r"}
NoOuterWhitespace(txt) ==
  Len(txt) > 0 => (txt[1] \notin Whitespace /\ txt[Len(txt)] \notin Whitespace)
NoWhitespaceRun(txt) ==
  \A i \in 1..(Len(txt) - 1) : ~(txt[i] \in Whitespace /\ txt[i + 1] \in Whitespace)

(* C23: after attribute extraction the name and the value carry no leading *)
(* or trailing whitespace character, and a value that contains a quote has *)
(* every run of repeated whitespace, the line breaks and the indentation   *)
(* of a multi-line value included, collapsed to a single space.            *)
C23_WhitespaceCollapsed ==
  Parsed =>
    \A a \in TreeAttrs(label_data) :
       /\ NoOuterWhitespace(a.name)
       /\ NoOuterWhitespace(a.value)
       /\ Contains(a.value, STRBEG) => NoWhitespaceRun(a.value)

----------------------------------------------------------------------------
\* The position of the ')' that closes the '(' at position open (-1 when
\* it is never closed): ParenScan counts the parentheses open at position i
RECURSIVE ParenScan(_, _, _)
ParenScan(t, i, depth) ==
  IF i >= Len(t) THEN -1
  ELSE IF t[i + 1] = "(" THEN ParenScan(t, i + 1, depth + 1)
  ELSE IF t[i + 1] = ")"
       THEN (IF depth = 1 THEN i ELSE ParenScan(t, i + 1, depth - 1))
       ELSE ParenScan(t, i + 1, depth)
MatchingParen(t, open) == ParenScan(t, open + 1, 1)
\* A text that starts with an attribute whose value opens with '(' right
\* after "= " and whose '(' is closed
OpensParen(t) ==
  LET as_pos == Find(t, ASSIGNMENT, 0)
      nl_pos == Find(t, NEWLINE, 0)
  IN  /\ as_pos >= 0
      /\ nl_pos < 0 \/ as_pos < nl_pos
      /\ as_pos + 2 < Len(t)
      /\ t[as_pos + 3] = "("
      /\ MatchingParen(t, as_pos + 2) >= 0
TupleAsOne(t) ==
  LET as_pos == Find(t, ASSIGNMENT, 0)
      close == MatchingParen(t, as_pos + 2)
      r == AttrNext(t)
  IN  /\ r.exc = ""
      /\ r.obj.kind = "att"
      /\ r.obj.name = str_rem_ends(Slice(t, 0, as_pos), " ")
      /\ r.obj.value # None
      /\ NonSpace(r.obj.value) = NonSpace(Slice(t, as_pos + 1, close + 1))
      /\ r.rest = SliceFrom(t, close + 1)

(* C24: when an attribute's value opens with '(' at the position right     *)
(* after "= ", the value extends to the ')' that matches that '(' (also    *)
(* when parentheses are nested or the tuple spans several lines), and the  *)
(* remaining text starts right after that matching ')'.  Stated for the    *)
(* text the parser is at and for every later position of it.               *)
C24_MatchingParenthesis ==
  pc = "parse" =>
    \A p \in 0..(Len(s) - 1) :
       OpensParen(SliceFrom(s, p)) => TupleAsOne(SliceFrom(s, p))

----------------------------------------------------------------------------
\* A text whose first line (the text before its first newline) has no '='
FirstLineUnassigned(t) ==
  /\ Find(t, NEWLINE, 0) >= 0
  /\ ~Contains(Slice(t, 0, Find(t, NEWLINE, 0)), ASSIGNMENT)
LineAsName(t) ==
  LET nl_pos == Find(t, NEWLINE, 0)
      r == AttrNext(t)
  IN  /\ r.exc = ""
      /\ r.obj.kind = "att"
      /\ r.obj.name = Slice(t, 0, nl_pos)
      /\ r.obj.value = None
      /\ r.rest = SliceFrom(t, nl_pos + 1)

(* C25: for a text whose first line contains no '=', the attribute parser  *)
(* returns an attribute whose name is that line's text (up to, not         *)
(* including, the newline) and whose value is none, and the remaining text *)
(* starts right after that newline.  Stated for the text the parser is at  *)
(* and for every later position of it.                                     *)
C25_LineWithoutAssignment ==
  pc = "parse" =>
    \A p \in 0..(Len(s) - 1) :
       FirstLineUnassigned(SliceFrom(s, p)) => LineAsName(SliceFrom(s, p))

----------------------------------------------------------------------------
\* An attribute with a non-empty name and a non-empty value, or named END
FilledOrEnd(a) ==
  \/ a.name = PDS_END_TAG
  \/ /\ a.name \notin {None, <<>>}
     /\ a.value \notin {None, <<>>}

(* C26: an attribute is valid exactly when its name and its value are     *)
(* both non-empty, or its name is the sentinel END; consequently every     *)
(* attribute kept in a parsed label tree (at top level or as a child of an *)
(* object) has a non-empty name and a non-empty value unless it is named   *)
(* END.  The first part is stated for the attribute read at the text the   *)
(* parser is at and at every later position of it.                         *)
C26_ValidAttributeIsFilled ==
  /\ pc = "parse" =>
       \A p \in 0..(Len(s) - 1) :
          \A r \in {AttrNext(SliceFrom(s, p))} :
             (r.exc = "" /\ r.obj.kind = "att")
                => (valid(r.obj) <=> FilledOrEnd(r.obj))
  /\ Parsed => \A a \in TreeAttrs(label_data) : FilledOrEnd(a)

----------------------------------------------------------------------------
\* The END_OBJECT attributes among the children of o that close o
ClosingPositions(o) ==
  { i \in 1..Len(o.value) :
      /\ o.value[i].kind = "att"
      /\ o.value[i].name = kwEND_OBJECT
      /\ o.value[i].value = o.name }
\* The names of a tree in the order of a depth-first walk; an object stands
\* for the line OBJECT = <name> that opens it
RECURSIVE TreeNames(_)
TreeNames(nodes) ==
  IF nodes = <<>> THEN <<>>
  ELSE (IF Head(nodes).kind = "obj"
        THEN <<kwOBJECT>> \o TreeNames(Head(nodes).value)
        ELSE <<Head(nodes).name>>)
       \o TreeNames(Tail(nodes))
\* The names written before the '=' of the lines of a text, top to bottom
LineNames(lines) ==
  [ i \in 1..Len(lines) |->
      str_rem_ends(Slice(lines[i], 0, Find(lines[i], ASSIGNMENT, 0)), " ") ]
DocNames(txt) ==
  LineNames(SelectSeq(Split(txt, NEWLINE), LAMBDA l : Contains(l, ASSIGNMENT)))
\* a is what is left of b after some of b's elements are dropped
RECURSIVE IsSubsequence(_, _)
IsSubsequence(a, b) ==
  IF a = <<>> THEN TRUE
  ELSE IF b = <<>> THEN FALSE
  ELSE IF Head(a) = Head(b) THEN IsSubsequence(Tail(a), Tail(b))
  ELSE IsSubsequence(a, Tail(b))
\* The labels made of complete COLUMN objects only
ColumnLabels ==
  { Wrap(w, b) : w \in {"", "TABLE", "CONTAINER"},
                 b \in UNION { { Concat(q) : q \in [1..n -> LabelColumns] } :
                               n \in 0..MaxColumns } }

(* C27: in every tree produced by PDSLabel.parse, each object node at any  *)
(* depth is valid: all of its children are valid, exactly one of its       *)
(* direct children is an END_OBJECT attribute whose value equals the       *)
(* object's own name, and that attribute is its last child; children       *)
(* appear in document order: the names of the tree, walked depth first,    *)
(* are names of the label's lines in the order of the lines, and all of    *)
(* them when the label is made of complete objects.                        *)
C27_ObjectsClosedInOrder ==
  /\ \A o \in TreeObjects(label_data) :
        /\ valid(o)
        /\ \A i \in 1..Len(o.value) : valid(o.value[i])
        /\ ClosingPositions(o) = {Len(o.value)}
  /\ IsSubsequence(TreeNames(label_data), DocNames(label_text))
  /\ (Parsed /\ label_text \in ColumnLabels)
        => TreeNames(label_data) = DocNames(label_text)
\* a parsed TABLE object that holds two COLUMN objects and its END_OBJECT
C27_Witness ==
  /\ Parsed
  /\ \E o \in TreeObjects(label_data) :
        /\ o.name = kwTABLE
        /\ Len(o.value) = 3
        /\ o.value[1].kind = "obj" /\ o.value[1].name = kwCOLUMN
        /\ o.value[2].kind = "obj" /\ o.value[2].name = kwCOLUMN
        /\ Len(o.value[1].value) > 2

----------------------------------------------------------------------------
\* The offsets the column at position i of the document takes: the sum of
\* the widths of the columns before it, and ITEMS offsets from there
DocOffset(cols, i) ==
  IF IsScalarColumn(cols[i]) THEN IdxInt(SumWidths(cols, i - 1))
  ELSE IdxList(RangeFrom(SumWidths(cols, i - 1), ColumnWidth(cols[i])))
LastOfName(cols, i) ==
  \A j \in (i + 1)..Len(cols) :
     get(cols[j], PDS_FIELD_NAME) # get(cols[i], PDS_FIELD_NAME)
\* The index map of the label of the columns A and B
MapOfAB == DictSet(DictSet(EmptyMap, nameA, IdxInt(0)), nameB, IdxInt(1))
ABLabels(body) == { Wrap(w, body) : w \in {"", "TABLE"} }
\* The traversal of the columns visits every COLUMN object of the tree
AllTraversed == column_count(label_data) = Len(DocColumns(label_data, 1))

(* C28: column offsets are inferred purely from traversal order and ITEMS: *)
(* each index-map entry is the sum of the widths of the columns before the *)
(* (last) column of that name, in document order when the traversal visits *)
(* every column of the document; two labels that differ                    *)
(* only in the values (or presence) of their COLUMN_NUMBER attributes, the *)
(* columns A and B without numbers, numbered 2 and 1, and numbered 1 and   *)
(* 2, produce the same column index map; and column_index(name) always     *)
(* returns the index-map entry (KeyError when there is none), never a      *)
(* value computed from COLUMN_NUMBER.                                      *)
C28_ColumnNumberIgnored ==
  /\ (Constructed /\ AllTraversed) =>
       \A cols \in {DocColumns(label_data, 1)} :
          /\ DOMAIN column_index_map
               = { get(cols[i], PDS_FIELD_NAME) : i \in 1..Len(cols) }
          /\ \A i \in 1..Len(cols) :
                LastOfName(cols, i)
                  => column_index_map[get(cols[i], PDS_FIELD_NAME)]
                       = DocOffset(cols, i)
  /\ (Constructed /\ label_text \in ABLabels(Unnumbered)
                                    \cup ABLabels(NumberedDown)
                                    \cup ABLabels(NumberedUp))
       => column_index_map = MapOfAB
  /\ (Constructed /\ result.op = "column_index") =>
       IF result.arg \in DOMAIN column_index_map
       THEN result.exc = "" /\ result.val = column_index_map[result.arg]
       ELSE result.exc = "KeyError"
\* column_index("A") answered 0 for the label whose column A carries
\* COLUMN_NUMBER = 2
C28_Witness ==
  /\ Constructed
  /\ label_text \in ABLabels(NumberedDown)
  /\ result.op = "column_index"
  /\ result.arg = nameA
  /\ result.exc = ""
  /\ result.val = IdxInt(0)

----------------------------------------------------------------------------
\* A text that starts with a line NAME = "X": the value opens with a quote
\* right after "= " and its closing quote ends the line
FirstLine(t) == Slice(t, 0, Find(t, NEWLINE, 0))
QuotedLine(t) ==
  /\ Find(t, NEWLINE, 0) >= 0
  /\ Find(FirstLine(t), ASSIGNMENT, 0) >= 0
  /\ Find(FirstLine(t), STRBEG, 0) = Find(FirstLine(t), ASSIGNMENT, 0) + 2
  /\ Find(FirstLine(t), STRBEG, Find(FirstLine(t), ASSIGNMENT, 0) + 3)
       = Len(FirstLine(t)) - 1
QuotesKept(t) ==
  LET r == AttrNext(t)
      written == Slice(t, Find(t, STRBEG, 0), ClosingQuote(t) + 1)
  IN  /\ r.exc = ""
      /\ r.obj.kind = "att"
      /\ Len(r.obj.value) >= 2
      /\ Head(r.obj.value) = STRBEG
      /\ r.obj.value[Len(r.obj.value)] = STRBEG
      /\ NonSpace(r.obj.value) = NonSpace(written)
\* The text Time without quotes, and the traversed columns the label names
\* "Time" (all labels write this name between double quotes)
BareTime == RemoveQuotes(nameTime)
TimeColumns ==
  { o \in { LabelIterObject(label_data, kwCOLUMN, 1)[i] :
              i \in 1..column_count(label_data) } :
      get(o, PDS_FIELD_NAME) # None
      /\ RemoveQuotes(get(o, PDS_FIELD_NAME)) = BareTime }

(* C29: quote characters are kept as part of a parsed value: for a label   *)
(* line NAME = "X" the attribute value is the text with both double        *)
(* quotes, and therefore the column name used as key by column_index,      *)
(* has_column, find_column_by_name and column_names is the quoted text:    *)
(* the column written NAME = "Time" is found under "Time" with its quotes  *)
(* and not under Time.                                                     *)
C29_QuotesKept ==
  /\ pc = "parse" =>
       \A p \in 0..(Len(s) - 1) :
          QuotedLine(SliceFrom(s, p)) => QuotesKept(SliceFrom(s, p))
  /\ (Constructed /\ TimeColumns # {}) =>
       /\ \A o \in TimeColumns : get(o, PDS_FIELD_NAME) = nameTime
       /\ nameTime \in DOMAIN column_index_map
       /\ column_index(column_index_map, nameTime).exc = ""
       /\ has_column(label_data, nameTime)
       /\ find_column_by_name(label_data, nameTime) \in TimeColumns
       /\ \E i \in 1..Len(column_names(label_data)) :
             column_names(label_data)[i] = nameTime
       /\ BareTime \notin DOMAIN column_index_map
       /\ column_index(column_index_map, BareTime).exc = "KeyError"
       /\ ~has_column(label_data, BareTime)
       /\ find_column_by_name(label_data, BareTime) = NoNode
       /\ \A i \in 1..Len(column_names(label_data)) :
             column_names(label_data)[i] # BareTime
  /\ (Constructed /\ result.op \in {"column_index", "has_column"}
                  /\ result.arg = nameTime)
       => (result.exc = "" /\ (result.op = "has_column" => result.val))
\* has_column('"Time"') answered for a label with the column NAME = "Time"
C29_Witness ==
  /\ Constructed
  /\ TimeColumns # {}
  /\ result.op = "has_column"
  /\ result.arg = nameTime
  /\ result.val

----------------------------------------------------------------------------
\* The columns in the order the index pass walks them, and the position of
\* the first of them named n: the column find_column_by_name(n) returns
WalkedColumns == LabelIterObject(label_data, kwCOLUMN, 1)
FirstNamed(cols, n) ==
  CHOOSE i \in 1..Len(cols) :
     /\ get(cols[i], PDS_FIELD_NAME) = n
     /\ \A j \in 1..(i - 1) : get(cols[j], PDS_FIELD_NAME) # n
WalkedNames ==
  { get(WalkedColumns[i], PDS_FIELD_NAME) : i \in 1..Len(WalkedColumns) }
    \ {None}

(* C30: for every column name n of any label, including a label in which   *)
(* several COLUMN objects share a name, column_index(n) is the offset (or  *)
(* offset range) of the same COLUMN object that find_column_by_name(n)     *)
(* returns, so column_data(n) reads the raw fields of the very column      *)
(* whose DATA_TYPE and MISSING_CONSTANT it applies; and the number of      *)
(* index-map entries equals column_count().                                *)
C30_IndexOfFoundColumn ==
  Constructed =>
    /\ \A n \in WalkedNames :
          /\ find_column_by_name(label_data, n)
               = WalkedColumns[FirstNamed(WalkedColumns, n)]
          /\ column_index(column_index_map, n).exc = ""
          /\ column_index(column_index_map, n).val
               = DocOffset(WalkedColumns, FirstNamed(WalkedColumns, n))
    /\ Cardinality(DOMAIN column_index_map) = column_count(label_data)

====
